---- MODULE Spec2Model ----
(***************************************************************************)
(* Flowmass minting engine: the durable mint state (state.go), the engine  *)
(* start-up with on-chain sync and reconciliation of pending reservations, *)
(* and the deposit polling loop (engine.go).                               *)
(*                                                                         *)
(* The process can die at any step; memory is lost and the next run starts *)
(* from the state file.  A write of the state file either succeeds or      *)
(* fails and leaves the previous file in place.                            *)
(***************************************************************************)
EXTENDS Integers, Sequences, FiniteSets, TLC

\* ---- bounds of the model ------------------------------------------------
Deposits == {"txA", "txB"}
MaxSeq == 3
MaxCrashes == 1
MaxTicks == 1
InitOnChain == 1
MaxUTxOs == 3
MaxLovelace == 5
MaxObserved == 2

Threads == {"first", "ticker"}
None == "none"

VARIABLES
    phase,              \* position of the process: NewEngine steps, running, fatal,
                        \* stopped
    NextMintCounter,    \* State.NextMintCounter (memory)
    ProcessedDeposits,  \* State.ProcessedDeposits / processedSet (memory)
    PendingDeposits,    \* State.PendingDeposits (memory), a map deposit -> id
    file,               \* the state file on disk
    maxOnChain,         \* local variable maxOnChain of NewEngine
    onChain,            \* numbers N for which an asset "Flowmass N" exists on chain
    pc,                 \* position of each polling goroutine
    queue,              \* deposits of the current poll not yet handled, per goroutine
    id,                 \* local variable id of mintNFTForDeposit, per goroutine
    issued,             \* history: every <<deposit, id>> returned by ReservePendingMint
    delegated,          \* history: successful submissions per deposit (saturating at 2)
    cleared,            \* history: deposits for which MarkProcessed+ClearPending ran
    lastOp,             \* history: the last mutating State call of this run
    syncM,              \* history: result of the start-up query of this run (-1: error)
    atLoad,             \* history: the pending map LoadState read, until Start
    unsaved,            \* history: deposits cleared in this run, no write succeeded since
    crashes, ticks,
    blockfrostKey,      \* parameter blockfrostKey of NewEngine, "" when none is configured
    selPc,              \* position in the input selection of one mintNFTForDeposit
    wallet,             \* its local variable utxos, the result of GetUTxOs
    selectedIns,        \* its local variable selectedIns
    selErr,             \* the selection returned an error
    txIns,              \* the inputs handed to BuildTransaction
    srcPc,              \* position in one call of a fetch function
    source,             \* the fetch function called: "blockfrost" or "mock"
    response,           \* what it reads: the answers of Blockfrost, or the fixture file
    deposits,           \* its result deposits
    fetchErr,           \* it returned an error
    txPc,               \* position of each goroutine between build and submit
    attempt,            \* deposit and id of the mintNFTForDeposit of each goroutine
    txRaw,              \* content of /var/lib/flowmass/tx.raw
    txSigned,           \* content of /var/lib/flowmass/tx.signed
    submitted           \* what the SubmitTransaction of each goroutine submitted

\* the input selection of mintNFTForDeposit, followed on its own in SelSpec
selVars == <<selPc, wallet, selectedIns, selErr, txIns>>

\* one call of fetchDepositsBlockfrost or fetchDepositsMock, followed on its
\* own in FetchSpec
srcVars == <<srcPc, source, response, deposits, fetchErr>>

\* build, sign and submit of the goroutines with the files they share,
\* followed on their own in TxSpec
txVars == <<txPc, attempt, txRaw, txSigned, submitted>>

\* the engine and its state file
engineVars == <<phase, NextMintCounter, ProcessedDeposits, PendingDeposits, file,
                maxOnChain, onChain, pc, queue, id, issued, delegated, cleared,
                lastOp, syncM, atLoad, unsaved, crashes, ticks, blockfrostKey>>

vars == <<phase, NextMintCounter, ProcessedDeposits, PendingDeposits, file,
          maxOnChain, onChain, pc, queue, id, issued, delegated, cleared,
          lastOp, syncM, atLoad, unsaved, crashes, ticks, blockfrostKey,
          selPc, wallet, selectedIns, selErr, txIns,
          srcPc, source, response, deposits, fetchErr,
          txPc, attempt, txRaw, txSigned, submitted>>

\* no transaction: a file not written, nothing submitted
NoTx == [dep |-> None, id |-> 0]

\* ---- helpers --------------------------------------------------------------
EmptyMap == [d \in {} |-> 0]

MaxOf(S) == IF S = {} THEN 0 ELSE CHOOSE m \in S : \A x \in S : x <= m

\* the whole map emptied instead of one entry deleted
MapDeleteAll(m, d) == [x \in {} |-> 0]

\* the entry set to 0 instead of deleted
MapDeleteZeroes(m, d) == [x \in (DOMAIN m) \cup {d} |-> IF x = d THEN 0 ELSE m[x]]

MapDelete(m, d) == [x \in (DOMAIN m) \ {d} |-> m[x]]

MapPut(m, d, v) == [x \in (DOMAIN m) \cup {d} |-> IF x = d THEN v ELSE m[x]]

\* lastOp: kind of the call, its deposit, the id returned (reserve; 0 with an
\* error), whether it wrote the file, whether it returned an error, and for a
\* reserve the id the directly preceding call returned if that was a
\* successful reserve of the same deposit (else 0)
NoOp == [kind |-> "none", dep |-> None, ret |-> 0, wrote |-> FALSE, err |-> FALSE,
         prev |-> 0]

OtherOp(k, d, e) == [kind |-> k, dep |-> d, ret |-> 0, wrote |-> k # "mark",
                     err |-> e, prev |-> 0]

\* MarkProcessed and ClearPending of deposit d; prev is the id of the entry
\* ClearPending found (0: none)
ClearOp(d, e) ==
    [OtherOp("clear", d, e) EXCEPT
        !.prev = IF d \in DOMAIN PendingDeposits THEN PendingDeposits[d] ELSE 0]

ReserveOp(d, r, w) ==
    [kind |-> "reserve", dep |-> d, ret |-> r, wrote |-> w, err |-> r = 0,
     prev |-> IF lastOp.kind = "reserve" /\ lastOp.dep = d THEN lastOp.ret ELSE 0]

\* ---- the state file -------------------------------------------------------
\* a snapshot that leaves the processed_deposits key out, the way Save
\* leaves pending_deposits out
FullSnapshotWithoutProcessed(n, p, q) == [kind |-> "ok", next |-> n, processed |-> {},
                                          hasPending |-> TRUE, pending |-> q]

\* json written by ReservePendingMint and ClearPending: all three keys
FullSnapshot(n, p, q) == [kind |-> "ok", next |-> n, processed |-> p,
                          hasPending |-> TRUE, pending |-> q]

\* a Save that writes the last id used instead of the next one
SaveSnapshotLastUsed(n, p) == [kind |-> "ok", next |-> n - 1, processed |-> p,
                               hasPending |-> FALSE, pending |-> [d \in {} |-> 0]]

\* json written by Save: next_mint_counter and processed_deposits only
SaveSnapshot(n, p) == [kind |-> "ok", next |-> n, processed |-> p,
                       hasPending |-> FALSE, pending |-> EmptyMap]

AbsentFile == [kind |-> "absent", next |-> 0, processed |-> {},
               hasPending |-> FALSE, pending |-> EmptyMap]

\* json.Unmarshal into the defaults of LoadState: a missing pending_deposits
\* key leaves the empty map
LoadedPending(f) == IF f.hasPending THEN f.pending ELSE EmptyMap

\* a write whose failure leaves an empty file behind
WriteFileTruncates(ok, data) == IF ok THEN data ELSE [AbsentFile EXCEPT !.kind = "bad"]

\* outcome of ioutil.WriteFile: the new content, or an error and the old file
WriteFile(ok, data) == IF ok THEN data ELSE file

\* deposits cleared in this run that no successful write has covered yet
Unsaved(ok, more) == IF ok THEN {} ELSE unsaved \cup more

\* ---- initial state --------------------------------------------------------
\* Before the first run: no state file (or one that does not parse), and the
\* policy may already have assets "Flowmass 1..n" on chain.
Init ==
    /\ phase = "boot"
    /\ NextMintCounter = 1
    /\ ProcessedDeposits = {}
    /\ PendingDeposits = EmptyMap
    /\ file \in {AbsentFile, [AbsentFile EXCEPT !.kind = "bad"]}
    /\ maxOnChain = 0
    /\ onChain \in {1..n : n \in 0..InitOnChain}
    /\ pc = [t \in Threads |-> "off"]
    /\ queue = [t \in Threads |-> <<>>]
    /\ id = [t \in Threads |-> 0]
    /\ issued = {}
    /\ delegated = [d \in Deposits |-> 0]
    /\ cleared = {}
    /\ lastOp = NoOp
    /\ syncM = -1
    /\ atLoad = EmptyMap
    /\ unsaved = {}
    /\ crashes = 0
    /\ blockfrostKey \in {"", "project_id"}
    /\ selPc = "get"
    /\ wallet = <<>>
    /\ selectedIns = <<>>
    /\ selErr = FALSE
    /\ txIns = <<>>
    /\ srcPc = "read"
    /\ source = "blockfrost"
    /\ response = [ok |-> FALSE, utxos |-> <<>>]
    /\ deposits = <<>>
    /\ fetchErr = FALSE
    /\ txPc = [t \in Threads |-> "off"]
    /\ attempt = [t \in Threads |-> NoTx]
    /\ txRaw = NoTx
    /\ txSigned = NoTx
    /\ submitted = [t \in Threads |-> NoTx]
    /\ ticks = 0

\* ---- NewEngine ------------------------------------------------------------
\* LoadState, then ensureCardanoCLIAvailable
LoadState ==
    /\ phase = "boot"
    /\ \E wok \in BOOLEAN, cli \in BOOLEAN :
        IF file.kind = "absent"
        THEN \* os.IsNotExist: state.Save() of the defaults
             /\ NextMintCounter' = 1
             /\ ProcessedDeposits' = {}
             /\ PendingDeposits' = EmptyMap
             /\ atLoad' = EmptyMap
             /\ file' = WriteFile(wok, SaveSnapshot(1, {}))
             /\ phase' = IF wok /\ cli THEN "sync" ELSE "fatal"
        ELSE IF file.kind = "bad"
        THEN \* json.Unmarshal fails
             /\ wok /\ cli
             /\ phase' = "fatal"
             /\ UNCHANGED <<NextMintCounter, ProcessedDeposits, PendingDeposits,
                            atLoad, file>>
        ELSE /\ wok
             /\ NextMintCounter' = file.next
             /\ ProcessedDeposits' = file.processed
             /\ PendingDeposits' = LoadedPending(file)
             /\ atLoad' = LoadedPending(file)
             /\ phase' = IF cli THEN "sync" ELSE "fatal"
             /\ UNCHANGED file
    /\ UNCHANGED <<maxOnChain, onChain, pc, queue, id, issued, delegated, cleared,
                   lastOp, syncM, unsaved, crashes, ticks, blockfrostKey, selVars, srcVars, txVars>>

\* what getMaxOnChainFlowmass can return: (max, nil) with the maximum over
\* all pages, or (max so far, err) when a page fails
QueryResults ==
    {[max |-> MaxOf(onChain), ok |-> TRUE]}
        \cup {[max |-> MaxOf(S), ok |-> FALSE] : S \in SUBSET onChain}

\* the sync test comparing the chain maximum itself with the counter
MustSyncOffByOne(r) == r.ok /\ r.max > NextMintCounter

\* the branch err == nil && maxOnChain+1 > state.NextMintCounter
MustSync(r) == r.ok /\ r.max + 1 > NextMintCounter

\* engine.go 44-58: without a Blockfrost key NewEngine returns an error;
\* with one, next_mint_counter is synced with the on-chain assets
SyncOnChain ==
    /\ phase = "sync"
    /\ IF blockfrostKey = ""
       THEN /\ phase' = "fatal"
            /\ UNCHANGED <<maxOnChain, syncM, NextMintCounter, file, unsaved, lastOp>>
       ELSE
       \E r \in QueryResults, wok \in BOOLEAN :
        /\ maxOnChain' = r.max
        /\ syncM' = IF r.ok THEN r.max ELSE -1
        /\ IF MustSync(r)
           THEN /\ NextMintCounter' = r.max + 1
                /\ file' = WriteFile(wok, SaveSnapshot(r.max + 1, ProcessedDeposits))
                /\ unsaved' = Unsaved(wok, {})
                /\ lastOp' = OtherOp("save", None, ~wok)
                /\ phase' = IF wok THEN "recon" ELSE "fatal"
           ELSE /\ wok
                /\ phase' = "recon"
                /\ UNCHANGED <<NextMintCounter, file, unsaved, lastOp>>
    /\ UNCHANGED <<ProcessedDeposits, PendingDeposits, onChain, pc, queue, id,
                   issued, delegated, cleared, atLoad, crashes, ticks, blockfrostKey, selVars, srcVars, txVars>>

\* engine.go 61-67: with pending reservations and maxOnChain == 0 the query
\* is tried once more
ReconcileQuery ==
    /\ phase = "recon"
    /\ \E r \in QueryResults :
        maxOnChain' = IF Cardinality(DOMAIN PendingDeposits) > 0 /\ maxOnChain = 0 /\ r.ok
                      THEN r.max ELSE maxOnChain
    /\ phase' = "reconLoop"
    /\ UNCHANGED <<NextMintCounter, ProcessedDeposits, PendingDeposits, file, onChain,
                   pc, queue, id, issued, delegated, cleared, lastOp, syncM, atLoad,
                   unsaved, crashes, ticks, blockfrostKey, selVars, srcVars, txVars>>

\* the reconciliation test with a strict comparison
AppearsMintedStrict(tx) == maxOnChain > PendingDeposits[tx]

\* the test maxOnChain >= id of the reconciliation loop
AppearsMinted(tx) == maxOnChain >= PendingDeposits[tx]

\* engine.go 68-74: one entry of the loop: MarkProcessed, then ClearPending
ReconcileEntry ==
    /\ phase = "reconLoop"
    /\ \E tx \in DOMAIN PendingDeposits, wok \in BOOLEAN :
        /\ AppearsMinted(tx)
        /\ ProcessedDeposits' = ProcessedDeposits \cup {tx}
        /\ PendingDeposits' = MapDelete(PendingDeposits, tx)
        /\ file' = WriteFile(wok, FullSnapshot(NextMintCounter, ProcessedDeposits',
                                               PendingDeposits'))
        /\ unsaved' = Unsaved(wok, {tx})
        /\ cleared' = cleared \cup {tx}
        /\ lastOp' = ClearOp(tx, ~wok)
    /\ phase' = "reconSave"
    /\ UNCHANGED <<NextMintCounter, maxOnChain, onChain, pc, queue, id, issued,
                   delegated, syncM, atLoad, crashes, ticks, blockfrostKey, selVars, srcVars, txVars>>

\* engine.go 75-77: state.Save() after each reconciled entry
ReconcileSave ==
    /\ phase = "reconSave"
    /\ \E wok \in BOOLEAN :
        /\ file' = WriteFile(wok, SaveSnapshot(NextMintCounter, ProcessedDeposits))
        /\ unsaved' = Unsaved(wok, {})
        /\ lastOp' = OtherOp("save", None, ~wok)
    /\ phase' = "reconLoop"
    /\ UNCHANGED <<NextMintCounter, ProcessedDeposits, PendingDeposits, maxOnChain,
                   onChain, pc, queue, id, issued, delegated, cleared, syncM, atLoad,
                   crashes, ticks, blockfrostKey, selVars, srcVars, txVars>>

\* the reconciliation loop has visited every entry
ReconcileDone ==
    /\ phase = "reconLoop"
    /\ \A tx \in DOMAIN PendingDeposits : ~AppearsMinted(tx)

\* engine.go 82-94 and Start 98-107: the engine is returned and started; the
\* first poll runs in its own goroutine next to the ticker loop
Start ==
    /\ ReconcileDone
    /\ phase' = "running"
    /\ pc' = [t \in Threads |-> IF t = "first" THEN "fetch" ELSE "idle"]
    /\ atLoad' = EmptyMap
    /\ UNCHANGED <<NextMintCounter, ProcessedDeposits, PendingDeposits, file,
                   maxOnChain, onChain, queue, id, issued, delegated, cleared,
                   lastOp, syncM, unsaved, crashes, ticks, blockfrostKey, selVars, srcVars, txVars>>

\* ---- the process dies and is started again --------------------------------
\* a crash, a kill, or a restart after log.Fatalf: memory is gone, the state
\* file and the chain stay.  Until LoadState sets it, NextMintCounter keeps
\* the value the ended run had (1 if that run never had a State), so that the
\* counter of the next run can be compared with it.
Crash ==
    /\ phase # "boot"
    /\ crashes < MaxCrashes
    /\ crashes' = crashes + 1
    /\ phase' = "boot"
    /\ NextMintCounter' = IF phase \in {"sync", "recon", "reconLoop", "reconSave", "running",
                                       "stopped"}
                          THEN NextMintCounter ELSE 1
    /\ ProcessedDeposits' = {}
    /\ PendingDeposits' = EmptyMap
    /\ maxOnChain' = 0
    /\ pc' = [t \in Threads |-> "off"]
    /\ queue' = [t \in Threads |-> <<>>]
    /\ id' = [t \in Threads |-> 0]
    /\ lastOp' = NoOp
    /\ syncM' = -1
    /\ atLoad' = EmptyMap
    /\ unsaved' = {}
    /\ UNCHANGED <<file, onChain, issued, delegated, cleared, ticks, blockfrostKey, selVars, srcVars, txVars>>

\* main 238-245: a signal arrives, eng.Stop() closes quit and main returns, which
\* ends the process and its goroutines wherever they are (nothing waits for
\* Start or for the first poll).  What the goroutines do between close(quit)
\* and the end of the process is what they can do before the signal.
Stop ==
    /\ phase = "running"
    /\ phase' = "stopped"
    /\ ProcessedDeposits' = {}
    /\ PendingDeposits' = EmptyMap
    /\ maxOnChain' = 0
    /\ pc' = [t \in Threads |-> "off"]
    /\ queue' = [t \in Threads |-> <<>>]
    /\ id' = [t \in Threads |-> 0]
    /\ lastOp' = NoOp
    /\ syncM' = -1
    /\ atLoad' = EmptyMap
    /\ unsaved' = {}
    /\ UNCHANGED <<NextMintCounter, file, onChain, issued, delegated, cleared,
                   crashes, ticks, blockfrostKey, selVars, srcVars, txVars>>

\* ---- coin selection (mintNFTForDeposit 405-451) ---------------------------
\* amounts are counted in ADA (1000000 lovelace): mintPrice is the configured
\* price, FeeBuffer the 2000000 lovelace added in line 439
mintPrice == 2
FeeBuffer == 2

UTxO(i, l, a) == [ID |-> i, Lovelace |-> l, Assets |-> a]

\* what GetUTxOs can return for the monitor address (Assets: the UTxO holds
\* non-lovelace assets)
Wallets ==
    { <<UTxO("u1", 5, TRUE), UTxO("u2", 3, FALSE), UTxO("u3", 4, FALSE)>>,
      <<UTxO("u1", 1, FALSE), UTxO("u2", 3, FALSE), UTxO("u3", 0, FALSE)>>,
      <<UTxO("u1", 2, FALSE), UTxO("u2", 1, FALSE)>>,
      <<UTxO("u1", 9, TRUE)>> }

\* candidates chosen on Lovelace > 0 alone
CandidatesAnyAssets(utxos) == SelectSeq(utxos, LAMBDA u : u.Lovelace > 0)

\* lovelace-only candidates with Lovelace > 0, in the order of the query
RECURSIVE Candidates(_)
Candidates(utxos) ==
    IF utxos = <<>> THEN <<>>
    ELSE IF ~Head(utxos).Assets /\ Head(utxos).Lovelace > 0
         THEN <<Head(utxos)>> \o Candidates(Tail(utxos))
         ELSE Candidates(Tail(utxos))

\* the candidates left in the order of the query
SortSkipped(c) == {c}

\* sort.Slice descending by Lovelace; the sort is not stable, so equal
\* values may come out in any order
SortDescending(c) ==
    LET n == Len(c)
        perms == {f \in [1..n -> 1..n] : \A i, j \in 1..n : i # j => f[i] # f[j]}
    IN  {s \in {[i \in 1..n |-> c[f[i]]] : f \in perms} :
            \A i \in 1..n : \A j \in 1..n : i < j => s[i].Lovelace >= s[j].Lovelace}

required == mintPrice + FeeBuffer

\* a loop without the break: every candidate is appended
AccumulateAll(c, sum) == c

\* the accumulation loop: append and add until sum >= required
RECURSIVE Accumulate(_, _)
Accumulate(c, sum) ==
    IF c = <<>> THEN <<>>
    ELSE IF sum + Head(c).Lovelace >= required
         THEN <<Head(c)>>
         ELSE <<Head(c)>> \o Accumulate(Tail(c), sum + Head(c).Lovelace)

RECURSIVE SumLovelace(_)
SumLovelace(c) == IF c = <<>> THEN 0 ELSE Head(c).Lovelace + SumLovelace(Tail(c))

\* a selection without the test sum < required after the loop
SelectInputsUnchecked(utxos) ==
    IF Candidates(utxos) = <<>>
    THEN {[ok |-> FALSE, ins |-> <<>>]}
    ELSE {[ok |-> TRUE, ins |-> Accumulate(s, 0)] : s \in SortDescending(Candidates(utxos))}

\* outcomes of the selection for one wallet: ok with the selected inputs, or
\* an error (no candidate, or sum < required)
SelectInputs(utxos) ==
    IF Candidates(utxos) = <<>>
    THEN {[ok |-> FALSE, ins |-> <<>>]}
    ELSE {[ok |-> SumLovelace(Accumulate(s, 0)) >= required,
           ins |-> IF SumLovelace(Accumulate(s, 0)) >= required
                   THEN Accumulate(s, 0) ELSE <<>>] : s \in SortDescending(Candidates(utxos))}

\* ---- the polling goroutines (Start, pollDeposits, mintNFTForDeposit) ------
\* a poll whose end also ends the loop of Start
EndAlwaysDone(t) == "done"

End(t) == IF t = "first" THEN "done" ELSE "idle"

\* all orders in which a set of deposits can be listed
Listings(S) ==
    {q \in UNION {[1..n -> S] : n \in 0..Cardinality(S)} :
        \A i, j \in DOMAIN q : i # j => q[i] # q[j]}

\* fetchDepositsBlockfrost: the UTxOs of the right amount now at the monitor
\* address, without those IsProcessed
FetchResults == Listings(Deposits \ ProcessedDeposits)

\* case <-ticker.C of the loop in Start
Tick ==
    /\ phase = "running"
    /\ pc["ticker"] = "idle"
    /\ ticks < MaxTicks
    /\ ticks' = ticks + 1
    /\ pc' = [pc EXCEPT !["ticker"] = "fetch"]
    /\ UNCHANGED <<phase, NextMintCounter, ProcessedDeposits, PendingDeposits, file,
                   maxOnChain, onChain, queue, id, issued, delegated, cleared,
                   lastOp, syncM, atLoad, unsaved, crashes, blockfrostKey, selVars, srcVars, txVars>>

\* pollDeposits 128: fetchDeposits returns the deposits or an error
Fetch(t) ==
    /\ phase = "running"
    /\ pc[t] = "fetch"
    /\ \/ /\ pc' = [pc EXCEPT ![t] = "aborted"]
          /\ UNCHANGED queue
       \/ \E q \in FetchResults :
            /\ queue' = [queue EXCEPT ![t] = q]
            /\ pc' = [pc EXCEPT ![t] = "check"]
    /\ UNCHANGED <<phase, NextMintCounter, ProcessedDeposits, PendingDeposits, file,
                   maxOnChain, onChain, id, issued, delegated, cleared, lastOp,
                   syncM, atLoad, unsaved, crashes, ticks, blockfrostKey, selVars, srcVars, txVars>>

\* pollDeposits 129-132: the error of fetchDeposits is logged and the poll
\* returns
AbortTick(t) ==
    /\ phase = "running"
    /\ pc[t] = "aborted"
    /\ pc' = [pc EXCEPT ![t] = End(t)]
    /\ UNCHANGED <<phase, NextMintCounter, ProcessedDeposits, PendingDeposits, file,
                   maxOnChain, onChain, queue, id, issued, delegated, cleared, lastOp,
                   syncM, atLoad, unsaved, crashes, ticks, blockfrostKey, selVars, srcVars, txVars>>

\* a loop that gives a deposit one attempt: a deposit that has a reservation
\* is passed over like a processed one
CheckSkipsReserved(t) ==
    /\ phase = "running"
    /\ pc[t] = "check"
    /\ IF queue[t] = <<>>
       THEN pc' = [pc EXCEPT ![t] = End(t)] /\ UNCHANGED queue
       ELSE IF Head(queue[t]) \in ProcessedDeposits \cup DOMAIN PendingDeposits
       THEN queue' = [queue EXCEPT ![t] = Tail(queue[t])] /\ UNCHANGED pc
       ELSE pc' = [pc EXCEPT ![t] = "reserve"] /\ UNCHANGED queue
    /\ UNCHANGED <<phase, NextMintCounter, ProcessedDeposits, PendingDeposits, file,
                   maxOnChain, onChain, id, issued, delegated, cleared, lastOp,
                   syncM, atLoad, unsaved, crashes, ticks, blockfrostKey, selVars, srcVars, txVars>>

\* pollDeposits 134-138: next deposit of the loop, skipped if IsProcessed
Check(t) ==
    /\ phase = "running"
    /\ pc[t] = "check"
    /\ IF queue[t] = <<>>
       THEN pc' = [pc EXCEPT ![t] = End(t)] /\ UNCHANGED queue
       ELSE IF Head(queue[t]) \in ProcessedDeposits
       THEN queue' = [queue EXCEPT ![t] = Tail(queue[t])] /\ UNCHANGED pc
       ELSE pc' = [pc EXCEPT ![t] = "reserve"] /\ UNCHANGED queue
    /\ UNCHANGED <<phase, NextMintCounter, ProcessedDeposits, PendingDeposits, file,
                   maxOnChain, onChain, id, issued, delegated, cleared, lastOp,
                   syncM, atLoad, unsaved, crashes, ticks, blockfrostKey, selVars, srcVars, txVars>>

\* an error of mintNFTForDeposit that leaves the loop of pollDeposits
NextDepositBreak(t) ==
    /\ queue' = [queue EXCEPT ![t] = <<>>]
    /\ id' = [id EXCEPT ![t] = 0]
    /\ pc' = [pc EXCEPT ![t] = "check"]

\* an error of mintNFTForDeposit after which pollDeposits goes on to its
\* MarkProcessed and Save
NextDepositFallsThrough(t) ==
    /\ UNCHANGED <<queue, id>>
    /\ pc' = [pc EXCEPT ![t] = "pollsave"]

\* mintNFTForDeposit returned (its locals are gone) and the loop of
\* pollDeposits goes on with the next deposit
NextDeposit(t) ==
    /\ queue' = [queue EXCEPT ![t] = Tail(queue[t])]
    /\ id' = [id EXCEPT ![t] = 0]
    /\ pc' = [pc EXCEPT ![t] = "check"]

\* a reservation without the test for an existing one, as ReserveNextMintID
AlreadyReservedUntested(depositTx) == FALSE

\* the test of ReservePendingMint for an existing reservation
AlreadyReserved(depositTx) == depositTx \in DOMAIN PendingDeposits

\* ReservePendingMint, called from mintNFTForDeposit 382-385
Reserve(t) ==
    /\ phase = "running"
    /\ pc[t] = "reserve"
    /\ LET depositTx == Head(queue[t]) IN
       IF AlreadyReserved(depositTx)
       THEN /\ id' = [id EXCEPT ![t] = PendingDeposits[depositTx]]
            /\ issued' = issued \cup {<<depositTx, PendingDeposits[depositTx]>>}
            /\ lastOp' = ReserveOp(depositTx, PendingDeposits[depositTx], FALSE)
            /\ pc' = [pc EXCEPT ![t] = "select"]
            /\ UNCHANGED <<NextMintCounter, PendingDeposits, file, unsaved, queue>>
       ELSE /\ NextMintCounter <= MaxSeq
            /\ \E wok \in BOOLEAN :
                /\ NextMintCounter' = NextMintCounter + 1
                /\ PendingDeposits' = MapPut(PendingDeposits, depositTx, NextMintCounter)
                /\ file' = WriteFile(wok, FullSnapshot(NextMintCounter', ProcessedDeposits,
                                                       PendingDeposits'))
                /\ unsaved' = Unsaved(wok, {})
                /\ IF wok
                   THEN /\ id' = [id EXCEPT ![t] = NextMintCounter]
                        /\ issued' = issued \cup {<<depositTx, NextMintCounter>>}
                        /\ lastOp' = ReserveOp(depositTx, NextMintCounter, TRUE)
                        /\ pc' = [pc EXCEPT ![t] = "select"]
                        /\ UNCHANGED queue
                   ELSE \* "failed to reserve mint id": on to the next deposit
                        /\ lastOp' = ReserveOp(depositTx, 0, TRUE)
                        /\ NextDeposit(t)
                        /\ UNCHANGED issued
    /\ UNCHANGED <<phase, ProcessedDeposits, maxOnChain, onChain, delegated, cleared,
                   syncM, atLoad, crashes, ticks, blockfrostKey, selVars, srcVars, txVars>>

\* mintNFTForDeposit 391-451: current slot, GetUTxOs and the selection of
\* inputs; any error ends the attempt for this deposit
Select(t) ==
    /\ phase = "running"
    /\ pc[t] = "select"
    /\ \/ \E w \in Wallets : \E r \in SelectInputs(w) :
            IF r.ok
            THEN pc' = [pc EXCEPT ![t] = "build"] /\ UNCHANGED <<queue, id>>
            ELSE NextDeposit(t)
       \/ \* GetCurrentSlotNetwork or GetUTxOs failed
          NextDeposit(t)
    /\ UNCHANGED <<phase, NextMintCounter, ProcessedDeposits, PendingDeposits, file,
                   maxOnChain, onChain, issued, delegated, cleared, lastOp,
                   syncM, atLoad, unsaved, crashes, ticks, blockfrostKey, selVars, srcVars, txVars>>

\* a call of the external tool: it succeeds, or its error ends the attempt
External(t, from, to) ==
    /\ phase = "running"
    /\ pc[t] = from
    /\ \/ pc' = [pc EXCEPT ![t] = to] /\ UNCHANGED <<queue, id>>
       \/ NextDeposit(t)
    /\ UNCHANGED <<phase, NextMintCounter, ProcessedDeposits, PendingDeposits, file,
                   maxOnChain, onChain, issued, delegated, cleared, lastOp,
                   syncM, atLoad, unsaved, crashes, ticks, blockfrostKey, selVars, srcVars, txVars>>

\* a build after which the transaction is submitted unsigned
BuildSkipsSign(t) == External(t, "build", "submit")

\* BuildTransaction (456-470)
Build(t) == External(t, "build", "sign")

\* SignTransaction (474-477)
Sign(t) == External(t, "sign", "submit")

\* SubmitTransaction (481-484): on success the asset "Flowmass id" is minted
Submit(t) ==
    /\ phase = "running"
    /\ pc[t] = "submit"
    /\ \/ /\ onChain' = onChain \cup {id[t]}
          /\ delegated' = [delegated EXCEPT ![Head(queue[t])] =
                               IF @ < 2 THEN @ + 1 ELSE @]
          /\ pc' = [pc EXCEPT ![t] = "mark"]
          /\ UNCHANGED <<queue, id>>
       \/ /\ NextDeposit(t)
          /\ UNCHANGED <<onChain, delegated>>
    /\ UNCHANGED <<phase, NextMintCounter, ProcessedDeposits, PendingDeposits, file,
                   maxOnChain, issued, cleared, lastOp, syncM, atLoad, unsaved,
                   crashes, ticks, blockfrostKey, selVars, srcVars, txVars>>

\* mintNFTForDeposit 488: MarkProcessed (memory only)
Mark(t) ==
    /\ phase = "running"
    /\ pc[t] = "mark"
    /\ ProcessedDeposits' = ProcessedDeposits \cup {Head(queue[t])}
    /\ lastOp' = OtherOp("mark", None, FALSE)
    /\ pc' = [pc EXCEPT ![t] = "clear"]
    /\ UNCHANGED <<phase, NextMintCounter, PendingDeposits, file, maxOnChain, onChain,
                   queue, id, issued, delegated, cleared, syncM, atLoad, unsaved,
                   crashes, ticks, blockfrostKey, selVars, srcVars, txVars>>

\* mintNFTForDeposit 489-491: ClearPending deletes the entry and writes the file
Clear(t) ==
    /\ phase = "running"
    /\ pc[t] = "clear"
    /\ \E wok \in BOOLEAN :
        /\ PendingDeposits' = MapDelete(PendingDeposits, Head(queue[t]))
        /\ file' = WriteFile(wok, FullSnapshot(NextMintCounter, ProcessedDeposits,
                                               PendingDeposits'))
        /\ unsaved' = Unsaved(wok, {Head(queue[t])})
        /\ lastOp' = ClearOp(Head(queue[t]), ~wok)
        /\ pc' = [pc EXCEPT ![t] = IF wok THEN "pollsave" ELSE "resave"]
    /\ cleared' = cleared \cup {Head(queue[t])}
    /\ UNCHANGED <<phase, NextMintCounter, ProcessedDeposits, maxOnChain, onChain,
                   queue, id, issued, delegated, syncM, atLoad, crashes, ticks,
                   blockfrostKey, selVars, srcVars, txVars>>

\* state.Save() as the engine calls it
Save(t, from) ==
    /\ phase = "running"
    /\ pc[t] = from
    /\ \E wok \in BOOLEAN :
        /\ file' = WriteFile(wok, SaveSnapshot(NextMintCounter, ProcessedDeposits))
        /\ unsaved' = Unsaved(wok, {})
        /\ lastOp' = OtherOp("save", None, ~wok)
    /\ UNCHANGED <<phase, NextMintCounter, ProcessedDeposits, PendingDeposits,
                   maxOnChain, onChain, issued, delegated, cleared, syncM, atLoad,
                   crashes, ticks, blockfrostKey, selVars, srcVars, txVars>>

\* mintNFTForDeposit 492-494: Save after a failed ClearPending
Resave(t) ==
    /\ Save(t, "resave")
    /\ pc' = [pc EXCEPT ![t] = "pollsave"]
    /\ UNCHANGED <<queue, id>>

\* pollDeposits 149-152 after a successful mint: MarkProcessed (the deposit
\* is marked already) and Save, then the next deposit
PollSave(t) ==
    /\ Save(t, "pollsave")
    /\ NextDeposit(t)

Next ==
    \/ LoadState
    \/ SyncOnChain
    \/ ReconcileQuery
    \/ ReconcileEntry
    \/ ReconcileSave
    \/ Start
    \/ Crash
    \/ Stop
    \/ Tick
    \/ \E t \in Threads : Fetch(t)
    \/ \E t \in Threads : AbortTick(t)
    \/ \E t \in Threads : Check(t)
    \/ \E t \in Threads : Reserve(t)
    \/ \E t \in Threads : Select(t)
    \/ \E t \in Threads : Build(t)
    \/ \E t \in Threads : Sign(t)
    \/ \E t \in Threads : Submit(t)
    \/ \E t \in Threads : Mark(t)
    \/ \E t \in Threads : Clear(t)
    \/ \E t \in Threads : Resave(t)
    \/ \E t \in Threads : PollSave(t)

Spec == Init /\ [][Next]_vars

\* ---- the engine with its ticker going on ------------------------------------
\* The ticker of Start fires every 60 seconds for as long as the process
\* runs; ticks counts the first MaxTicks of them.  Each goroutine takes its
\* next step whenever it has one (every external call returns), and a tick
\* comes whenever the loop of Start waits for one.

\* Start 109-112: case <-ticker.C
LiveTick ==
    /\ phase = "running"
    /\ pc["ticker"] = "idle"
    /\ ticks' = IF ticks < MaxTicks THEN ticks + 1 ELSE ticks
    /\ pc' = [pc EXCEPT !["ticker"] = "fetch"]
    /\ UNCHANGED <<phase, NextMintCounter, ProcessedDeposits, PendingDeposits, file,
                   maxOnChain, onChain, queue, id, issued, delegated, cleared,
                   lastOp, syncM, atLoad, unsaved, crashes, blockfrostKey, selVars, srcVars, txVars>>

\* the next step of the poll of goroutine t
PollStep(t) ==
    \/ Fetch(t)
    \/ AbortTick(t)
    \/ Check(t)
    \/ Reserve(t)
    \/ Select(t)
    \/ Build(t)
    \/ Sign(t)
    \/ Submit(t)
    \/ Mark(t)
    \/ Clear(t)
    \/ Resave(t)
    \/ PollSave(t)

\* one run of the process from its first start: LoadState finds no pending
\* reservation, so the reconciliation loop of NewEngine has no entry to visit
LiveNext ==
    \/ LoadState
    \/ SyncOnChain
    \/ ReconcileQuery
    \/ Start
    \/ LiveTick
    \/ \E t \in Threads : PollStep(t)

LiveSpec ==
    /\ Init
    /\ [][LiveNext]_vars
    /\ WF_vars(LiveTick)
    /\ \A t \in Threads : WF_vars(PollStep(t))

\* ---- the input selection of mintNFTForDeposit on its own --------------------
\* One call of mintNFTForDeposit from GetUTxOs to BuildTransaction, for every
\* content of the monitor address up to MaxUTxOs UTxOs of 0..MaxLovelace; the
\* selected inputs are kept as UTxOs (the code keeps their IDs).
UTxOId(i) == <<"u1", "u2", "u3", "u4", "u5">>[i]

WalletInputs ==
    UNION {{[i \in 1..n |-> UTxO(UTxOId(i), f[i].l, f[i].a)] :
                f \in [1..n -> [l : 0..MaxLovelace, a : BOOLEAN]]} : n \in 0..MaxUTxOs}

\* engine.go 400-403: GetUTxOs returns the UTxOs at the monitor address
GetUTxOs ==
    /\ selPc = "get"
    /\ wallet' \in WalletInputs
    /\ selPc' = "select"
    /\ UNCHANGED <<selectedIns, selErr, txIns, engineVars, srcVars, txVars>>

\* engine.go 405-451: the selection, ending in selectedIns or in an error
SelectIns ==
    /\ selPc = "select"
    /\ \E r \in SelectInputs(wallet) :
        /\ selectedIns' = r.ins
        /\ selErr' = ~r.ok
        /\ selPc' = IF r.ok THEN "build" ELSE "abort"
    /\ UNCHANGED <<wallet, txIns, engineVars, srcVars, txVars>>

\* engine.go 456-467: BuildTransaction is called with selectedIns
HandToBuild ==
    /\ selPc = "build"
    /\ txIns' = selectedIns
    /\ selPc' = "done"
    /\ UNCHANGED <<wallet, selectedIns, selErr, engineVars, srcVars, txVars>>

SelNext ==
    \/ GetUTxOs
    \/ SelectIns
    \/ HandToBuild

SelSpec == Init /\ [][SelNext]_vars

\* ---- fetchDeposits on its own ------------------------------------------------
\* One call of fetchDepositsBlockfrost or of fetchDepositsMock, for every
\* answer of up to MaxObserved UTxOs or records and every set of processed
\* deposits.
monitorAddr == "addr_monitor"

\* sequences of up to MaxObserved elements of S
Observed(S) == UNION {[1..n -> S] : n \in 0..MaxObserved}

\* the decimal strings Blockfrost sends as quantity, and one that is no number
Quantities == {ToString(mintPrice), ToString(mintPrice + 1), ""}

\* fmt.Sscanf(a.Quantity, "%d", &lovelace): the number read, or lovelace as
\* it was when the string is no number
Sscanf(quantity, lovelace) ==
    IF \E n \in 0..(MaxLovelace + 1) : ToString(n) = quantity
    THEN CHOOSE n \in 0..(MaxLovelace + 1) : ToString(n) = quantity
    ELSE lovelace

\* the amount list of a UTxO: its lovelace, alone or with a native asset
AmountLists ==
    UNION {{<<[Unit |-> "lovelace", Quantity |-> q]>>,
            <<[Unit |-> "lovelace", Quantity |-> q],
              [Unit |-> "policy.Flowmass", Quantity |-> "1"]>>} : q \in Quantities}

\* the answer to /txs/{hash}/utxos: an error, no inputs, or the inputs
TxDetails ==
    {[ok |-> FALSE, Inputs |-> <<>>],
     [ok |-> TRUE, Inputs |-> <<>>],
     [ok |-> TRUE, Inputs |-> <<"addr_sender", "addr_other">>]}

\* the answer to /addresses/{address}/utxos: an error (of curl or of the
\* parse), or the UTxOs at the monitor address
BlockfrostResponses ==
    {[ok |-> FALSE, utxos |-> <<>>]}
        \cup {[ok |-> TRUE, utxos |-> u] :
                u \in Observed([TxHash : Deposits, Amount : AmountLists,
                                txDetails : TxDetails])}

\* mock_deposits.json: missing, not parsable, or a list of records
MockFiles ==
    {[exists |-> FALSE, parses |-> FALSE, records |-> <<>>],
     [exists |-> TRUE, parses |-> FALSE, records |-> <<>>]}
        \cup {[exists |-> TRUE, parses |-> TRUE, records |-> r] :
                r \in Observed([Monitor : {monitorAddr, "addr_other"},
                                SenderAddr : {"addr_sender"},
                                Amount : {mintPrice, mintPrice + 1},
                                TxHash : Deposits])}

Deposit(tx, sender, amount) == [TxHash |-> tx, SenderAddr |-> sender, Amount |-> amount]

\* engine.go 211-216: the quantity of the unit "lovelace"
RECURSIVE ParseLovelace(_, _)
ParseLovelace(amount, lovelace) ==
    IF amount = <<>>
    THEN lovelace
    ELSE ParseLovelace(Tail(amount),
                       IF Head(amount).Unit = "lovelace"
                       THEN Sscanf(Head(amount).Quantity, lovelace)
                       ELSE lovelace)

\* a test that lets every amount from the price upwards pass
MatchesTargetOrMore(lovelace) == lovelace >= mintPrice

\* lovelace == lovelaceTarget, m.Amount == lovelaceTarget
MatchesTarget(lovelace) == lovelace = mintPrice

\* a sender left empty when it cannot be resolved
ResolveSenderOrEmpty(txDetails) ==
    IF txDetails.ok /\ Len(txDetails.Inputs) > 0 THEN txDetails.Inputs[1] ELSE ""

\* engine.go 220-236: the address of the first input, "unknown" without one
ResolveSender(txDetails) ==
    IF txDetails.ok /\ Len(txDetails.Inputs) > 0 THEN txDetails.Inputs[1] ELSE "unknown"

\* engine.go 205-244: the loop of fetchDepositsBlockfrost over the UTxOs
RECURSIVE BlockfrostDeposits(_)
BlockfrostDeposits(utxos) ==
    IF utxos = <<>>
    THEN <<>>
    ELSE LET u == Head(utxos)
             lovelace == ParseLovelace(u.Amount, 0)
         IN  IF u.TxHash \in ProcessedDeposits
             THEN BlockfrostDeposits(Tail(utxos))
             ELSE IF MatchesTarget(lovelace)
             THEN <<Deposit(u.TxHash, ResolveSender(u.txDetails), lovelace)>>
                      \o BlockfrostDeposits(Tail(utxos))
             ELSE BlockfrostDeposits(Tail(utxos))

\* engine.go 360-373: the loop of fetchDepositsMock over the records
RECURSIVE MockDeposits(_)
MockDeposits(mockDeposits) ==
    IF mockDeposits = <<>>
    THEN <<>>
    ELSE LET m == Head(mockDeposits) IN
         IF m.Monitor # monitorAddr \/ m.TxHash \in ProcessedDeposits
         THEN MockDeposits(Tail(mockDeposits))
         ELSE IF MatchesTarget(m.Amount)
         THEN <<Deposit(m.TxHash, m.SenderAddr, m.Amount)>>
                  \o MockDeposits(Tail(mockDeposits))
         ELSE MockDeposits(Tail(mockDeposits))

\* a running engine in which the deposits of P are processed
FetchInit ==
    /\ ProcessedDeposits \in SUBSET Deposits
    /\ phase = "running"
    /\ NextMintCounter = 3
    /\ PendingDeposits = EmptyMap
    /\ issued = {p \in {<<"txA", 1>>, <<"txB", 2>>} : p[1] \in ProcessedDeposits}
    /\ onChain = {p[2] : p \in issued}
    /\ delegated = [d \in Deposits |-> IF d \in ProcessedDeposits THEN 1 ELSE 0]
    /\ cleared = ProcessedDeposits
    /\ file = SaveSnapshot(3, ProcessedDeposits)
    /\ maxOnChain = 0
    /\ pc = [t \in Threads |-> IF t = "first" THEN "fetch" ELSE "idle"]
    /\ queue = [t \in Threads |-> <<>>]
    /\ id = [t \in Threads |-> 0]
    /\ lastOp = NoOp
    /\ syncM = 0
    /\ atLoad = EmptyMap
    /\ unsaved = {}
    /\ crashes = 0
    /\ ticks = 0
    /\ blockfrostKey = "project_id"
    /\ selPc = "get"
    /\ wallet = <<>>
    /\ selectedIns = <<>>
    /\ selErr = FALSE
    /\ txIns = <<>>
    /\ srcPc = "read"
    /\ source = "blockfrost"
    /\ response = [ok |-> FALSE, utxos |-> <<>>]
    /\ deposits = <<>>
    /\ fetchErr = FALSE
    /\ txPc = [t \in Threads |-> "off"]
    /\ attempt = [t \in Threads |-> NoTx]
    /\ txRaw = NoTx
    /\ txSigned = NoTx
    /\ submitted = [t \in Threads |-> NoTx]

\* engine.go 174-203 and 343-358: the answer of Blockfrost, or the content
\* of the fixture file
ReadSource ==
    /\ srcPc = "read"
    /\ \E src \in {"blockfrost", "mock"} :
        /\ source' = src
        /\ response' \in IF src = "blockfrost" THEN BlockfrostResponses ELSE MockFiles
    /\ srcPc' = "filter"
    /\ UNCHANGED <<deposits, fetchErr, engineVars, selVars, txVars>>

\* fetchDepositsBlockfrost: an error, or the deposits of the loop
FetchDepositsBlockfrost ==
    /\ srcPc = "filter"
    /\ source = "blockfrost"
    /\ fetchErr' = ~response.ok
    /\ deposits' = IF response.ok THEN BlockfrostDeposits(response.utxos) ELSE <<>>
    /\ srcPc' = "returned"
    /\ UNCHANGED <<source, response, engineVars, selVars, txVars>>

\* fetchDepositsMock: nothing without a file, an error with one that does
\* not parse, else the deposits of the loop
FetchDepositsMock ==
    /\ srcPc = "filter"
    /\ source = "mock"
    /\ fetchErr' = (response.exists /\ ~response.parses)
    /\ deposits' = IF response.exists /\ response.parses
                   THEN MockDeposits(response.records) ELSE <<>>
    /\ srcPc' = "returned"
    /\ UNCHANGED <<source, response, engineVars, selVars, txVars>>

FetchNext ==
    \/ ReadSource
    \/ FetchDepositsBlockfrost
    \/ FetchDepositsMock

FetchSpec == FetchInit /\ [][FetchNext]_vars

\* ---- build, sign and submit on their own ------------------------------------
\* The goroutines of Start, each in one mintNFTForDeposit with a reserved id,
\* from BuildTransaction to SubmitTransaction.  A transaction is known by the
\* deposit it pays (its sender is the recipient) and the id in its asset name.

\* mintNFTForDeposit 378-451 has reserved an id for a deposit and selected
\* the inputs
BeginAttempt(t) ==
    /\ txPc[t] = "off"
    /\ \E d \in Deposits, n \in 1..MaxSeq :
        \* ids reserved in one run for different deposits differ
        /\ \A u \in Threads \ {t} : attempt[u].dep \in {None, d} \/ attempt[u].id # n
        /\ attempt' = [attempt EXCEPT ![t] = [dep |-> d, id |-> n]]
    /\ txPc' = [txPc EXCEPT ![t] = "build"]
    /\ UNCHANGED <<txRaw, txSigned, submitted, engineVars, selVars, srcVars>>

\* BuildTransaction: cardano-cli writes the transaction to txFile, or fails
TxBuild(t) ==
    /\ txPc[t] = "build"
    /\ \/ /\ txRaw' = attempt[t]
          /\ txPc' = [txPc EXCEPT ![t] = "sign"]
       \/ /\ txPc' = [txPc EXCEPT ![t] = "failed"]
          /\ UNCHANGED txRaw
    /\ UNCHANGED <<attempt, txSigned, submitted, engineVars, selVars, srcVars>>

\* SignTransaction: cardano-cli signs the content of txFile into signedFile
TxSign(t) ==
    /\ txPc[t] = "sign"
    /\ \/ /\ txSigned' = txRaw
          /\ txPc' = [txPc EXCEPT ![t] = "submit"]
       \/ /\ txPc' = [txPc EXCEPT ![t] = "failed"]
          /\ UNCHANGED txSigned
    /\ UNCHANGED <<attempt, txRaw, submitted, engineVars, selVars, srcVars>>

\* SubmitTransaction: cardano-cli submits the content of signedFile
TxSubmit(t) ==
    /\ txPc[t] = "submit"
    /\ \/ /\ submitted' = [submitted EXCEPT ![t] = txSigned]
          /\ txPc' = [txPc EXCEPT ![t] = "done"]
       \/ /\ txPc' = [txPc EXCEPT ![t] = "failed"]
          /\ UNCHANGED submitted
    /\ UNCHANGED <<attempt, txRaw, txSigned, engineVars, selVars, srcVars>>

TxNext ==
    \/ \E t \in Threads : BeginAttempt(t)
    \/ \E t \in Threads : TxBuild(t)
    \/ \E t \in Threads : TxSign(t)
    \/ \E t \in Threads : TxSubmit(t)

TxSpec == Init /\ [][TxNext]_vars

\* ---- properties -----------------------------------------------------------
\* a State value exists: LoadState has returned it
Loaded == phase \in {"sync", "recon", "reconLoop", "reconSave", "running"}

\* the file, read back, is the memory in all three fields
FileIsMemory ==
    /\ file.kind = "ok"
    /\ file.next = NextMintCounter
    /\ file.processed = ProcessedDeposits
    /\ LoadedPending(file) = PendingDeposits

\* C1: no sequence collision: the ids returned for distinct deposits are
\* pairwise distinct, across crashes and reloads, and every id returned is
\* below NextMintCounter of the loaded state
C1_NoSequenceCollision ==
    /\ \A p \in issued, q \in issued : p[1] # q[1] => p[2] # q[2]
    /\ Loaded => \A p \in issued : p[2] < NextMintCounter

\* C2: exactly-once processing: the submission of the mint succeeds at most
\* once for each deposit, across crashes and restarts
C2_ExactlyOnceDelegation == \A d \in Deposits : delegated[d] <= 1

\* C3: one sequence for life: all ids returned for a deposit whose
\* reservation was never cleared are the same id
C3_OneSequenceForLife ==
    \A p \in issued, q \in issued :
        (p[1] = q[1] /\ p[1] \notin cleared) => p[2] = q[2]

\* a step of goroutine t that is a call of ReservePendingMint
ReserveStep(t) ==
    /\ phase = "running" /\ phase' = "running"
    /\ pc[t] = "reserve" /\ pc'[t] # "reserve"

\* C4: idempotent reservation: a ReservePendingMint(d) that directly follows
\* a successful ReservePendingMint(d) returns the same id, leaves the
\* counter, the pending map and the file alone and writes nothing
C4_IdempotentReservation ==
    [][\A t \in Threads :
        (/\ ReserveStep(t)
         /\ lastOp.kind = "reserve" /\ ~lastOp.err
         /\ lastOp.dep = Head(queue[t]))
        => /\ id'[t] = lastOp.ret
           /\ lastOp'.ret = lastOp.ret
           /\ ~lastOp'.err
           /\ ~lastOp'.wrote
           /\ NextMintCounter' = NextMintCounter
           /\ PendingDeposits' = PendingDeposits
           /\ file' = file]_vars

\* C4 witness: a second call in a row has returned the id of the first
C4_Witness ==
    /\ lastOp.kind = "reserve"
    /\ lastOp.prev > 0
    /\ lastOp.ret = lastOp.prev
    /\ \E t \in Threads : pc[t] = "select" /\ id[t] = lastOp.ret

C6_MemoryMatchesDisk ==
    (lastOp.wrote /\ ~lastOp.err) => FileIsMemory

\* C7: rollback on failed reservation: a ReservePendingMint that returns an
\* error leaves NextMintCounter and PendingDeposits as they were before it
C7_RollbackOnFailedReservation ==
    [][\A t \in Threads :
        (ReserveStep(t) /\ lastOp'.kind = "reserve" /\ lastOp'.err)
        => (/\ NextMintCounter' = NextMintCounter
            /\ PendingDeposits' = PendingDeposits)]_vars

\* the deposits that were pending in the loaded file with an id the chain
\* maximum seen by the reconciliation covers
Recoverable == {d \in DOMAIN atLoad : maxOnChain >= atLoad[d]}

\* the file shows deposit d processed and not pending
FileShowsProcessed(d) ==
    /\ file.kind = "ok"
    /\ d \in file.processed
    /\ d \notin DOMAIN LoadedPending(file)

Synced == phase \in {"recon", "reconLoop", "reconSave", "running"}

C10_ProcessedNeverReReserved ==
    (lastOp.kind = "reserve" /\ lastOp.wrote /\ ~lastOp.err)
        => lastOp.dep \notin ProcessedDeposits

\* C11: MintState invariant: in every state of a loaded State,
\* NextMintCounter >= 1, every id in PendingDeposits and every id ever
\* returned by ReservePendingMint is < NextMintCounter; and NextMintCounter
\* never gets smaller, neither within a run nor from the run that ended to
\* the State loaded from the file
C11_MintStateInvariant ==
    /\ [](Loaded =>
            /\ NextMintCounter >= 1
            /\ \A d \in DOMAIN PendingDeposits : PendingDeposits[d] < NextMintCounter
            /\ \A p \in issued : p[2] < NextMintCounter)
    /\ [][Loaded' => NextMintCounter' >= NextMintCounter]_vars

\* the selection is over
Selected == selPc \in {"build", "abort", "done"}

\* the wallet of the example: 5 with foreign assets, 3, 4
ExampleWallet ==
    <<UTxO("u1", 5, TRUE), UTxO("u2", 3, FALSE), UTxO("u3", 4, FALSE)>>

\* C12: no UTxO with non-lovelace assets is among the selected inputs or
\* among the inputs handed to BuildTransaction; for the wallet [5 with
\* assets, 3, 4] and required 4 the selection succeeds with exactly the UTxO
\* of 4
C12_NoForeignInput ==
    /\ \A i \in DOMAIN selectedIns : ~selectedIns[i].Assets
    /\ \A i \in DOMAIN txIns : ~txIns[i].Assets
    /\ (Selected /\ wallet = ExampleWallet /\ required = 4)
        => (~selErr /\ selectedIns = <<UTxO("u3", 4, FALSE)>>)

\* C12 witness: the wallet of the example, and the UTxO of 4 alone was handed
\* to BuildTransaction
C12_Witness ==
    /\ selPc = "done"
    /\ wallet = ExampleWallet
    /\ txIns = <<UTxO("u3", 4, FALSE)>>

\* the sum of the UTxOs of w that hold no other asset
RECURSIVE ForeignFreeSum(_)
ForeignFreeSum(w) ==
    IF w = <<>> THEN 0
    ELSE (IF Head(w).Assets THEN 0 ELSE Head(w).Lovelace) + ForeignFreeSum(Tail(w))

Unselected ==
    {wallet[i] : i \in {j \in DOMAIN wallet : ~wallet[j].Assets}}
        \ {selectedIns[i] : i \in DOMAIN selectedIns}

\* C14: on success the selected inputs are the shortest prefix of the
\* lovelace-only UTxOs sorted descending whose sum is >= required: they are
\* distinct lovelace-only UTxOs of the wallet, in descending order, none left
\* out is larger than the last one selected, their sum is >= required and
\* without the last one it is < required
C14_ShortestDescendingPrefix ==
    (Selected /\ ~selErr) =>
        LET n == Len(selectedIns) IN
        /\ n >= 1
        /\ \A i \in 1..n : \E j \in DOMAIN wallet :
                wallet[j] = selectedIns[i] /\ ~wallet[j].Assets
        /\ \A i, j \in 1..n : i # j => selectedIns[i].ID # selectedIns[j].ID
        /\ \A i, j \in 1..n : i < j => selectedIns[i].Lovelace >= selectedIns[j].Lovelace
        /\ \A u \in Unselected : u.Lovelace <= selectedIns[n].Lovelace
        /\ SumLovelace(selectedIns) >= required
        /\ SumLovelace(selectedIns) - selectedIns[n].Lovelace < required
        /\ selPc = "done" => txIns = selectedIns

\* C14 witness: two inputs were needed and a smaller lovelace-only UTxO was
\* left out
C14_Witness ==
    /\ selPc = "done"
    /\ Len(txIns) = 2
    /\ \E u \in Unselected : u.Lovelace > 0

\* deposit d is the only one that arrived in this first run on a fresh state
\* file, and every asset on chain has an id this engine issued
OnlyDeposit(d) ==
    /\ crashes = 0
    /\ phase = "running"
    /\ \A p \in issued : p[1] = d
    /\ DOMAIN PendingDeposits \subseteq {d}
    /\ \A t \in Threads : \A i \in DOMAIN queue[t] : queue[t][i] = d
    /\ onChain \subseteq {p[2] : p \in issued}

\* C15: end-to-end scenario: fresh state, no mint on chain, one deposit; once
\* its mint went through (MarkProcessed and ClearPending ran), id 1 and no
\* other was reserved for it, the transaction was submitted exactly once, and
\* the deposit is processed and not pending
C15_SingleDepositScenario ==
    \A d \in Deposits :
        (OnlyDeposit(d) /\ d \in cleared) =>
            /\ issued = {<<d, 1>>}
            /\ delegated[d] = 1
            /\ d \in ProcessedDeposits
            /\ d \notin DOMAIN PendingDeposits

\* a step in which goroutine t runs ClearPending (engine.go 489)
ClearStep(t) ==
    /\ phase = "running" /\ phase' = "running"
    /\ pc[t] = "clear" /\ pc'[t] # "clear"

\* a step of the reconciliation that runs MarkProcessed and ClearPending
ReconcileStep == phase = "reconLoop" /\ phase' = "reconSave"

\* memory after clearing the reservation of d: d processed, its entry gone,
\* the counter and the other entries as before
ClearedInMemory(d) ==
    /\ d \in ProcessedDeposits'
    /\ d \notin DOMAIN PendingDeposits'
    /\ NextMintCounter' = NextMintCounter
    /\ DOMAIN PendingDeposits' = (DOMAIN PendingDeposits) \ {d}
    /\ \A x \in DOMAIN PendingDeposits' : PendingDeposits'[x] = PendingDeposits[x]

\* C16 as claimed: after MarkProcessed and ClearPending of a deposit with a
\* reservation, the deposit is processed and not pending, the counter and the
\* other reservations are unchanged, and the file shows exactly this state
C16_ClearReservationEffect ==
    [][/\ \A t \in Threads :
            (ClearStep(t) /\ Head(queue[t]) \in DOMAIN PendingDeposits)
                => (ClearedInMemory(Head(queue[t])) /\ FileIsMemory')
       /\ ReconcileStep => (ClearedInMemory(lastOp'.dep) /\ FileIsMemory')]_vars

\* C16 as amended: the same in memory; the file shows exactly this state when
\* ClearPending returned without error
C16_ClearReservationEffectOnSuccess ==
    [][/\ \A t \in Threads :
            (ClearStep(t) /\ Head(queue[t]) \in DOMAIN PendingDeposits)
                => (/\ ClearedInMemory(Head(queue[t]))
                    /\ ~lastOp'.err => FileIsMemory')
       /\ ReconcileStep => (/\ ClearedInMemory(lastOp'.dep)
                            /\ ~lastOp'.err => FileIsMemory')]_vars

\* C16 witness: a reservation was cleared without error while another
\* deposit holds a reservation, and the file shows the memory
C16_Witness ==
    /\ lastOp.kind = "clear" /\ ~lastOp.err /\ lastOp.prev > 0
    /\ lastOp.dep \in ProcessedDeposits
    /\ DOMAIN PendingDeposits # {}
    /\ FileIsMemory

\* C17: ClearPending for a deposit without a reservation changes nothing in
\* memory and still writes the file (on success the file shows the memory);
\* in particular a second ClearPending for the same deposit right after the
\* first changes nothing
C17_ClearReservationIdempotent ==
    [][\A t \in Threads :
        /\ (ClearStep(t) /\ Head(queue[t]) \notin DOMAIN PendingDeposits)
            => (/\ UNCHANGED <<NextMintCounter, PendingDeposits, ProcessedDeposits>>
                /\ lastOp'.kind = "clear" /\ lastOp'.wrote
                /\ ~lastOp'.err => FileIsMemory')
        /\ (ClearStep(t) /\ lastOp.kind = "clear" /\ lastOp.dep = Head(queue[t]))
            => UNCHANGED <<NextMintCounter, PendingDeposits, ProcessedDeposits>>]_vars

\* C17 witness: a ClearPending that found no reservation, for a deposit
\* cleared before, wrote the file
C17_Witness ==
    /\ lastOp.kind = "clear" /\ ~lastOp.err /\ lastOp.prev = 0
    /\ lastOp.dep \in cleared
    /\ \E t \in Threads : pc[t] = "pollsave" /\ Head(queue[t]) = lastOp.dep
    /\ FileIsMemory

Delegating == {t \in Threads : pc[t] \in {"build", "sign", "submit"}}

\* C19: sequential discipline: at every instant at most one deposit is being
\* built, signed or submitted, over the first poll and the ticker polls
C19_SequentialDiscipline == Cardinality(Delegating) <= 1

\* goroutine t is inside mintNFTForDeposit or in the Save that follows it
InFlight(t) ==
    pc[t] \in {"reserve", "select", "build", "sign", "submit", "mark", "clear",
               "resave", "pollsave"}

\* C20: clean shutdown: when the process ends after Stop, no deposit is in
\* flight: the one that was in flight when Stop was called has completed or
\* failed
C20_CleanShutdown ==
    [][phase' = "stopped" => \A t \in Threads : ~InFlight(t)]_vars

\* a step of the poll of goroutine t on a failed fetchDeposits: the error
\* comes back, or the poll returns after it
FetchFailStep(t) ==
    /\ phase = "running" /\ phase' = "running"
    /\ \/ pc[t] = "fetch" /\ pc'[t] = "aborted"
       \/ pc[t] = "aborted" /\ pc'[t] # "aborted"

\* C21: a failed fetchDeposits ends the poll without a change of the state:
\* counter, reservations, processed deposits, file and chain are as before,
\* nothing is reserved or submitted, no deposit is left to handle, and the
\* ticker loop waits for the next tick, on which the fetch is made again
C21_FailedFetchAbortsTick ==
    /\ [][\A t \in Threads : FetchFailStep(t) =>
            /\ UNCHANGED <<NextMintCounter, PendingDeposits, ProcessedDeposits, file,
                           onChain, issued, delegated>>
            /\ queue'[t] = <<>>
            /\ pc'[t] \in {"aborted", "idle", "done"}
            /\ (t = "ticker" /\ pc[t] = "aborted") => pc'[t] = "idle"]_vars
    /\ [][(pc["ticker"] = "idle" /\ pc'["ticker"] \notin {"idle", "off"})
            => pc'["ticker"] = "fetch"]_vars

\* C21 witness: the first poll has reserved an id, and the fetch of the
\* ticker's poll has failed
C21_Witness ==
    /\ pc["ticker"] = "aborted"
    /\ issued # {}
    /\ file.kind = "ok" /\ file.next = NextMintCounter

\* the step that follows a successful step of mintNFTForDeposit
NextStep(step) ==
    CASE step = "reserve" -> "select"
      [] step = "select" -> "build"
      [] step = "build" -> "sign"
      [] step = "sign" -> "submit"
      [] step = "submit" -> "mark"

\* a step of goroutine t in which mintNFTForDeposit returns an error
AttemptFailStep(t) ==
    /\ phase = "running" /\ phase' = "running"
    /\ pc[t] \in {"reserve", "select", "build", "sign", "submit"}
    /\ pc'[t] \notin {pc[t], NextStep(pc[t])}

\* C22: an error of the reservation, of the selection of inputs or of
\* build, sign or submit for one deposit does not end the poll: the deposits
\* that follow it in the fetched list are all still to be handled, the loop
\* goes on with the first of them (reserving for it unless it is processed
\* by now), and the process keeps running
C22_PerDepositErrorsDoNotAbort ==
    /\ [][\A t \in Threads : AttemptFailStep(t) =>
            /\ queue'[t] = Tail(queue[t])
            /\ pc'[t] = "check"]_vars
    /\ [][\A t \in Threads :
            (phase = "running" /\ phase' = "running" /\ pc[t] = "check"
               /\ queue[t] # <<>> /\ <<pc[t], queue[t]>> # <<pc'[t], queue'[t]>>)
            => IF Head(queue[t]) \in ProcessedDeposits
               THEN pc'[t] = "check" /\ queue'[t] = Tail(queue[t])
               ELSE pc'[t] = "reserve" /\ queue'[t] = queue[t]]_vars

\* C22 witness: in the first poll the attempt for txA has failed after its
\* reservation, and the same poll is reserving for txB
C22_Witness ==
    /\ ticks = 0 /\ crashes = 0 /\ phase = "running"
    /\ pc["first"] = "reserve" /\ queue["first"] = <<"txB">>
    /\ "txA" \in DOMAIN PendingDeposits
    /\ "txA" \notin ProcessedDeposits

\* C23: an error of the slot query, of the selection of inputs or of build,
\* sign or submit for a reserved deposit changes nothing: the deposit is not
\* marked processed, PendingDeposits (its entry and id) and NextMintCounter
\* are as the reservation left them, the file is not written, and the poll
\* goes on with the loop, not with its MarkProcessed and Save
C23_FailedAttemptChangesNothing ==
    [][\A t \in Threads : (AttemptFailStep(t) /\ pc[t] # "reserve") =>
         /\ UNCHANGED <<ProcessedDeposits, PendingDeposits, NextMintCounter, file>>
         /\ pc'[t] = "check"]_vars

\* C23 witness: the first poll is over, txA has its reservation in memory
\* and in the file but is not processed and nothing was submitted for it
C23_Witness ==
    /\ ticks = 0 /\ crashes = 0 /\ phase = "running"
    /\ pc["first"] = "done"
    /\ "txA" \in DOMAIN PendingDeposits
    /\ "txA" \notin ProcessedDeposits
    /\ delegated["txA"] = 0
    /\ file = FullSnapshot(NextMintCounter, ProcessedDeposits, PendingDeposits)

\* C24: the Blockfrost key is optional: NewEngine, having loaded the state
\* and found cardano-cli, does not fail for want of a key
C24_KeyOptional ==
    [][(phase = "sync" /\ blockfrostKey = "") => phase' # "fatal"]_vars

ObservedUnits ==
    IF source = "blockfrost"
    THEN [i \in DOMAIN response.utxos |->
            [id |-> response.utxos[i].TxHash,
             value |-> ParseLovelace(response.utxos[i].Amount, 0),
             watched |-> TRUE]]
    ELSE [i \in DOMAIN response.records |->
            [id |-> response.records[i].TxHash,
             value |-> response.records[i].Amount,
             watched |-> response.records[i].Monitor = monitorAddr]]

\* the units at the monitor address worth the price and not processed
NewUnits ==
    {i \in DOMAIN ObservedUnits :
        /\ ObservedUnits[i].watched
        /\ ObservedUnits[i].value = mintPrice
        /\ ObservedUnits[i].id \notin ProcessedDeposits}

\* C26: deposit filtering, for fetchDepositsBlockfrost and fetchDepositsMock
\* alike: every deposit returned has exactly the price as amount and an id
\* that is not processed, and every unit seen with that amount and an
\* unprocessed id is returned, once per unit
C26_DepositFiltering ==
    (srcPc = "returned" /\ ~fetchErr) =>
        /\ \A j \in DOMAIN deposits :
            /\ deposits[j].Amount = mintPrice
            /\ deposits[j].TxHash \notin ProcessedDeposits
        /\ \A i \in NewUnits : \E j \in DOMAIN deposits :
            /\ deposits[j].TxHash = ObservedUnits[i].id
            /\ deposits[j].Amount = ObservedUnits[i].value
        /\ Len(deposits) = Cardinality(NewUnits)

\* C26 witness: Blockfrost shows txA, processed, and txB, both worth the
\* price, and the fetch returns txB alone
C26_Witness ==
    /\ srcPc = "returned" /\ ~fetchErr
    /\ source = "blockfrost"
    /\ ProcessedDeposits = {"txA"}
    /\ Len(response.utxos) = 2
    /\ response.utxos[1].TxHash = "txA" /\ ParseLovelace(response.utxos[1].Amount, 0) = mintPrice
    /\ response.utxos[2].TxHash = "txB" /\ ParseLovelace(response.utxos[2].Amount, 0) = mintPrice
    /\ Len(deposits) = 1
    /\ deposits[1].TxHash = "txB" /\ deposits[1].Amount = mintPrice

\* C27: a deposit whose sender cannot be resolved is not dropped: when the
\* query for the inputs of the depositing transaction fails or shows no
\* input, fetchDepositsBlockfrost returns no error and returns the deposit
\* with the sender "unknown"
C27_UnknownSenderKept ==
    (srcPc = "returned" /\ source = "blockfrost" /\ response.ok) =>
        /\ ~fetchErr
        /\ \A i \in NewUnits :
            (~response.utxos[i].txDetails.ok \/ response.utxos[i].txDetails.Inputs = <<>>)
                => \E j \in DOMAIN deposits :
                        deposits[j] = Deposit(response.utxos[i].TxHash, "unknown", mintPrice)

\* C27 witness: the sender query fails for txA and shows no input for txB,
\* and both deposits are returned with the sender "unknown"
C27_Witness ==
    /\ srcPc = "returned" /\ ~fetchErr
    /\ source = "blockfrost" /\ response.ok
    /\ ProcessedDeposits = {}
    /\ Len(response.utxos) = 2
    /\ response.utxos[1].TxHash = "txA" /\ ~response.utxos[1].txDetails.ok
    /\ response.utxos[2].TxHash = "txB" /\ response.utxos[2].txDetails.ok
    /\ response.utxos[2].txDetails.Inputs = <<>>
    /\ deposits = <<Deposit("txA", "unknown", mintPrice), Deposit("txB", "unknown", mintPrice)>>

\* goroutine t enters step `step` of mintNFTForDeposit
Enters(t, step) == pc[t] # step /\ pc'[t] = step

\* C28: the steps of one mintNFTForDeposit come in the order reserve,
\* select, build, sign, submit, finalize: the selection starts only when
\* ReservePendingMint has returned an id, the build only after the
\* selection, the signing only after the build, the submission only after
\* the signing, and a running engine marks a deposit processed only in the
\* attempt whose submission has just succeeded for that deposit's id
C28_StepOrder ==
    /\ [][\A t \in Threads : phase' = "running" =>
            /\ Enters(t, "reserve") => pc[t] = "check"
            /\ Enters(t, "select") =>
                 /\ pc[t] = "reserve"
                 /\ lastOp'.kind = "reserve" /\ ~lastOp'.err
                 /\ lastOp'.dep = Head(queue[t])
                 /\ id'[t] = lastOp'.ret /\ id'[t] > 0
            /\ Enters(t, "build") => pc[t] = "select"
            /\ Enters(t, "sign") => pc[t] = "build"
            /\ Enters(t, "submit") => pc[t] = "sign"
            /\ Enters(t, "mark") => (pc[t] = "submit" /\ id[t] \in onChain')
            /\ Enters(t, "clear") => pc[t] = "mark"
            /\ pc[t] \in {"select", "build", "sign", "submit", "mark"}
                 => (id'[t] = id[t] \/ pc'[t] = "check")]_vars
    /\ [][\A d \in Deposits :
            (phase = "running" /\ phase' = "running"
                /\ d \in ProcessedDeposits' /\ d \notin ProcessedDeposits)
            => \E t \in Threads :
                /\ pc[t] = "mark" /\ pc'[t] = "clear"
                /\ Head(queue[t]) = d]_vars
    /\ [](\A t \in Threads : pc[t] \in {"mark", "clear"} =>
            /\ delegated[Head(queue[t])] >= 1
            /\ id[t] \in onChain)

\* C28 witness: an attempt has gone through all its steps: the deposit is
\* marked processed, its id is minted, and its reservation is about to be
\* cleared
C28_Witness ==
    \E t \in Threads :
        /\ pc[t] = "clear"
        /\ Head(queue[t]) \in ProcessedDeposits
        /\ delegated[Head(queue[t])] = 1
        /\ id[t] \in onChain
        /\ Head(queue[t]) \in DOMAIN PendingDeposits
        /\ PendingDeposits[Head(queue[t])] = id[t]

\* C29: every id handed out has a durable record: whenever
\* ReservePendingMint returns an id without error, on its first call for the
\* deposit or on a later one, the file on disk has next_mint_counter above it
C29_IssuedIsDurable ==
    (lastOp.kind = "reserve" /\ ~lastOp.err)
        => (file.kind = "ok" /\ file.next > lastOp.ret)

\* the ids of the reservations made for deposit d
IssuedTo(d) == {p[2] : p \in {q \in issued : q[1] = d}}

\* C30: processed implies minted: every processed deposit, marked by the
\* workflow or by the start-up reconciliation, is one for which a
\* transaction was submitted successfully with an id reserved for it
C30_ProcessedImpliesMinted ==
    Loaded => \A d \in ProcessedDeposits :
                /\ delegated[d] >= 1
                /\ IssuedTo(d) \cap onChain # {}

\* the positions of the UTxOs of the wallet that hold no other asset
ForeignFree == {i \in DOMAIN wallet : ~wallet[i].Assets}

\* the lovelace of the UTxOs at the positions S of the wallet
RECURSIVE SumAt(_)
SumAt(S) ==
    IF S = {} THEN 0
    ELSE LET i == CHOOSE j \in S : TRUE IN wallet[i].Lovelace + SumAt(S \ {i})

\* C31: the greedy selection minimizes the number of inputs: when the
\* selection succeeds, no set of UTxOs without other assets that has fewer
\* elements than the selection sums to required or more
C31_MinimalInputCount ==
    (Selected /\ ~selErr) =>
        \A S \in SUBSET ForeignFree :
            Cardinality(S) < Len(selectedIns) => SumAt(S) < required

\* C31 witness: three UTxOs without other assets, none of them enough alone,
\* all three together more than needed, and two were selected
C31_Witness ==
    /\ selPc = "done"
    /\ Cardinality(ForeignFree) = 3
    /\ \A i \in ForeignFree : wallet[i].Lovelace > 0 /\ wallet[i].Lovelace < required
    /\ Len(selectedIns) = 2
    /\ Len(txIns) = 2

\* C32: unbounded retry: as long as the engine runs and no submission has
\* succeeded for a deposit, every poll whose fetch returned the deposit
\* attempts it again, whatever the number of earlier attempts, each attempt
\* gets the id of the one reservation the deposit holds, the reservation
\* stays with the same id, and the deposit is not added to processed
C32_UnboundedRetry ==
    /\ [][\A t \in Threads :
            (phase = "running" /\ phase' = "running" /\ pc[t] = "check"
               /\ queue[t] # <<>> /\ Head(queue[t]) \notin ProcessedDeposits
               /\ delegated[Head(queue[t])] = 0
               /\ <<pc[t], queue[t]>> # <<pc'[t], queue'[t]>>)
            => (pc'[t] = "reserve" /\ queue'[t] = queue[t])]_vars
    /\ [][\A t \in Threads :
            (Enters(t, "select") /\ Head(queue[t]) \in DOMAIN PendingDeposits)
            => id'[t] = PendingDeposits[Head(queue[t])]]_vars
    /\ [][\A d \in Deposits :
            (phase = "running" /\ phase' = "running" /\ delegated'[d] = 0) =>
                /\ d \in ProcessedDeposits' => d \in ProcessedDeposits
                /\ d \in DOMAIN PendingDeposits =>
                     /\ d \in DOMAIN PendingDeposits'
                     /\ PendingDeposits'[d] = PendingDeposits[d]]_vars

\* C32 witness: the attempt of the first poll for txA has failed, no
\* submission for txA has succeeded, and the poll of the tick is attempting
\* txA again with the id of its reservation
C32_Witness ==
    /\ phase = "running" /\ crashes = 0 /\ ticks = 1
    /\ pc["first"] = "done"
    /\ pc["ticker"] = "submit" /\ Head(queue["ticker"]) = "txA"
    /\ delegated["txA"] = 0
    /\ "txA" \notin ProcessedDeposits
    /\ "txA" \in DOMAIN PendingDeposits
    /\ id["ticker"] = PendingDeposits["txA"]
    /\ issued = {<<"txA", PendingDeposits["txA"]>>}

\* a step in which nothing fails that an attempt needs: no fetch returns an
\* error, and no reservation, slot query, selection, build, sign or submit
\* does
GoodStep ==
    \A t \in Threads :
        /\ ~(pc[t] = "fetch" /\ pc'[t] = "aborted")
        /\ ~AttemptFailStep(t)

\* a fetch of this step returns deposit d unless d is processed
Returns(d) ==
    \A t \in Threads :
        (pc[t] = "fetch" /\ pc'[t] = "check")
            => (d \in ProcessedDeposits \/ \E i \in DOMAIN queue'[t] : queue'[t][i] = d)

\* C33: eventual finalization: when the process keeps running with its
\* ticker, and from some point on every fetch returns deposit d while it is
\* not processed, the funds suffice, the reservation can be written and the
\* external calls succeed, then d is eventually processed with no pending
\* reservation, and stays so (as far as the ids up to MaxSeq go)
C33_EventualFinalization ==
    \A d \in Deposits :
        (/\ <>[](phase = "running")
         /\ [](NextMintCounter <= MaxSeq)
         /\ <>[][GoodStep /\ Returns(d)]_vars)
            => <>[](d \in ProcessedDeposits /\ d \notin DOMAIN PendingDeposits)

\* deposit d is both processed and a key of the pending map, in memory
InBoth(d) == d \in ProcessedDeposits /\ d \in DOMAIN PendingDeposits

\* goroutine t is about to read the State: IsProcessed in fetchDeposits and
\* in the loop of pollDeposits, the pending map in ReservePendingMint
Reads(t) == phase = "running" /\ pc[t] \in {"fetch", "check", "reserve"}

\* C34: finalization is atomic to observers: no file written shows a deposit
\* both in processed_deposits and as a key of pending_deposits, and no
\* goroutine reading the State finds a deposit both processed and pending
C34_AtomicFinalization ==
    /\ file.kind = "ok" =>
         \A d \in Deposits : ~(d \in file.processed /\ d \in DOMAIN LoadedPending(file))
    /\ \A t \in Threads : Reads(t) => \A d \in Deposits : ~InBoth(d)

\* C35: no cross-wiring of build artifacts: between its build and its
\* signing the transaction file holds the transaction built for the
\* goroutine's own deposit, between signing and submission the signed file
\* holds it, and what a goroutine submits is the transaction built for its
\* deposit and id
C35_NoCrossWiring ==
    \A t \in Threads :
        /\ txPc[t] = "sign" => txRaw = attempt[t]
        /\ txPc[t] = "submit" => txSigned = attempt[t]
        /\ submitted[t] # NoTx => submitted[t] = attempt[t]

====
